---- MODULE Spec2Model ----
(***************************************************************************)
(* Model of the Banelo dashboard request handlers (dashboard/views.py) and *)
(* of the Firebase health check (dashboard/firebase_utils.py).             *)
(*                                                                         *)
(* The relational tables are state variables; every request handler is an *)
(* operator from (database, request) to (database, response), and one      *)
(* action of the state machine.  Python floats are modelled as integers    *)
(* together with the IEEE value NaN, which float() produces from the JSON  *)
(* literal NaN and from the string "nan".                                  *)
(***************************************************************************)
EXTENDS Integers, Sequences, FiniteSets, TLC

VARIABLES
    products,           \* table products          (models.Product)
    wasteLogs,          \* table waste_logs        (models.WasteLog), in insertion order
    auditTrail,         \* table audit_trail       (models.AuditTrail), in insertion order
    recipes,            \* table recipes           (models.Recipe)
    recipeIngredients,  \* table recipe_ingredients (models.RecipeIngredient)
    sales,              \* table sales             (models.Sale)
    mlPredictions,      \* table ml_predictions    (models.MLPrediction)
    mlModels,           \* table ml_models         (models.MLModel)
    cache,              \* django.core.cache entry of the Firebase health status
    firebase,           \* the Firebase environment seen by the health check
    now,                \* the clock
    queries,            \* number of Firestore queries made so far
    last,               \* the last call and what it returned
    inflight            \* the requests being handled and the responses sent

vars == <<products, wasteLogs, auditTrail, recipes, recipeIngredients, sales,
          mlPredictions, mlModels, cache, firebase, now, queries, last, inflight>>

(***************************************************************************)
(* Bounds of the model.                                                    *)
(***************************************************************************)
MaxStock == 2
MaxAudit == 2
MaxRows == 2
MaxIngredients == 2
MaxGroup == 3
MaxNow == 4
MaxTime == 65
TicksPerDay == 2

\* program constants
MinSales == 10
MinProductSales == 3
FIREBASE_HEALTH_CACHE_TIMEOUT == 60

None == "None"

(***************************************************************************)
(* Python floats: an integer value or NaN; FNone is Python's None where a  *)
(* float is expected.                                                      *)
(***************************************************************************)
NaN == [k |-> "nan", v |-> 0]
FNone == [k |-> "none", v |-> 0]
F(n) == [k |-> "num", v |-> n]
Zero == F(0)
IsNum(x) == x.k = "num"

FAdd(x, y) == IF IsNum(x) /\ IsNum(y) THEN F(x.v + y.v) ELSE NaN
FSub(x, y) == IF IsNum(x) /\ IsNum(y) THEN F(x.v - y.v) ELSE NaN
\* every ordered comparison with NaN is False
FLt(x, y) == IsNum(x) /\ IsNum(y) /\ x.v < y.v
\* the mutated comparison: < in place of <=
FLeStrict(x, y) == IsNum(x) /\ IsNum(y) /\ x.v < y.v
FLe(x, y) == IsNum(x) /\ IsNum(y) /\ x.v <= y.v
FGe(x, y) == IsNum(x) /\ IsNum(y) /\ x.v >= y.v
FEq(x, y) == IsNum(x) /\ IsNum(y) /\ x.v = y.v
\* `x or 0`: None and 0.0 are falsy, NaN is truthy
OrZero(x) == IF x = FNone THEN Zero ELSE x

(***************************************************************************)
(* float(data.get(key, 0)) on a JSON value.                                *)
(***************************************************************************)
Absent == [t |-> "absent", n |-> 0]
JNull == [t |-> "null", n |-> 0]
JText == [t |-> "text", n |-> 0]
JNaN == [t |-> "nan", n |-> 0]
JNum(n) == [t |-> "num", n |-> n]

ParseFloat(raw, default) ==
    CASE raw.t = "absent" -> [exc |-> None, val |-> default]
      [] raw.t = "null" -> [exc |-> "TypeError", val |-> Zero]
      [] raw.t = "text" -> [exc |-> "ValueError", val |-> Zero]
      [] raw.t = "nan" -> [exc |-> None, val |-> NaN]
      [] raw.t = "num" -> [exc |-> None, val |-> F(raw.n)]

(***************************************************************************)
(* The database and the responses.                                         *)
(***************************************************************************)
DB == [products |-> products, wasteLogs |-> wasteLogs, auditTrail |-> auditTrail,
       recipes |-> recipes, recipeIngredients |-> recipeIngredients,
       sales |-> sales, mlPredictions |-> mlPredictions, mlModels |-> mlModels]

NoPayload == [newInventoryA |-> FNone, newInventoryB |-> FNone]

\* JsonResponse({...}) returned by the body of a handler
JsonResponse(handler, req, success, message, payload) ==
    [handler |-> handler, req |-> req, exc |-> None, raised |-> FALSE,
     success |-> success, message |-> message, payload |-> payload]

\* the mutated except clause: the exception leaves the handler
Propagate(handler, req, exc) ==
    [handler |-> handler, req |-> req, exc |-> exc, raised |-> TRUE,
     success |-> FALSE, message |-> "", payload |-> NoPayload]

\* except Exception as e: return JsonResponse({'success': False, 'message': str(e)})
ExceptException(handler, req, exc) ==
    [handler |-> handler, req |-> req, exc |-> exc, raised |-> FALSE,
     success |-> FALSE, message |-> exc, payload |-> NoPayload]

Returned(db, resp) == [db |-> db, resp |-> resp]

\* log_audit: the row is created unless the insert raises, which is swallowed
log_audit(db, action, fails) ==
    IF fails THEN db
    ELSE [db EXCEPT !.auditTrail = Append(@, action)]

\* Product.objects.get(Q(firebase_id=product_id) | Q(id=product_id))
ProductsMatching(db, product_id) ==
    {p \in db.products : p.firebase_id = product_id \/ p.id = product_id}

\* product.save(): the whole row replaces the stored row of the same primary key
SaveProduct(db, product) ==
    [db EXCEPT !.products = {p \in @ : p.id # product.id} \cup {product}]

(***************************************************************************)
(* Requests.  body is what json.loads(request.body) yields: "object" for a *)
(* JSON object, "list" for any other JSON value (data.get then raises      *)
(* AttributeError) and "invalid" for a body that is not JSON.  fault is    *)
(* the number of the database statement of the handler at which the        *)
(* database raises, 0 for none.                                            *)
(***************************************************************************)
Bodies == {"object", "list", "invalid"}
BodyException(body) ==
    IF body = "invalid" THEN "JSONDecodeError" ELSE "AttributeError"

ProductIdInputs == {None, "p1", "f2", "zz"}
Quantities == {JNum(n) : n \in (-1)..(MaxStock + 1)} \cup {Absent, JNull, JText, JNaN}
Reasons == {"Expired", "TooLong"}

(***************************************************************************)
(* transfer_inventory_api: Inventory A -> Inventory B.                      *)
(* Statements: 1 Product.objects.get, 2 product.save, 3 AuditTrail insert. *)
(***************************************************************************)
transfer_inventory_api(db, req) ==
    LET h == "transfer_inventory_api"
        parsed == ParseFloat(req.quantity, Zero)
        transfer_qty == parsed.val
        matching == ProductsMatching(db, req.productId)
    IN
    IF req.body # "object"
    THEN Returned(db, ExceptException(h, req, BodyException(req.body)))
    ELSE IF parsed.exc # None
    THEN Returned(db, ExceptException(h, req, parsed.exc))
    ELSE IF req.productId = None \/ FLe(transfer_qty, Zero)
    THEN Returned(db, JsonResponse(h, req, FALSE, "Invalid product or quantity", NoPayload))
    ELSE IF req.fault = 1
    THEN Returned(db, ExceptException(h, req, "DatabaseError"))
    ELSE IF matching = {}
    THEN Returned(db, JsonResponse(h, req, FALSE, "Product not found", NoPayload))
    ELSE IF Cardinality(matching) > 1
    THEN Returned(db, ExceptException(h, req, "MultipleObjectsReturned"))
    ELSE
    LET product == CHOOSE p \in matching : TRUE
        inventory_a == OrZero(product.inventory_a)
        inventory_b == OrZero(product.inventory_b)
        new_inventory_a == FSub(inventory_a, transfer_qty)
        new_inventory_b == FAdd(inventory_b, transfer_qty)
        saved == SaveProduct(db, [product EXCEPT !.inventory_a = new_inventory_a,
                                                 !.inventory_b = new_inventory_b])
    IN
    IF FLt(inventory_a, transfer_qty)
    THEN Returned(db, JsonResponse(h, req, FALSE, "Insufficient stock in Inventory A", NoPayload))
    ELSE IF req.fault = 2
    THEN Returned(db, ExceptException(h, req, "DatabaseError"))
    ELSE Returned(log_audit(saved, "Inventory Transfer", req.fault = 3),
                  JsonResponse(h, req, TRUE, "Successfully transferred",
                               [newInventoryA |-> new_inventory_a,
                                newInventoryB |-> new_inventory_b]))

(***************************************************************************)
(* add_waste_api: Inventory B -> waste log.                                *)
(* Statements: 1 Product.objects.get, 2 product.save, 3 WasteLog insert,   *)
(* 4 AuditTrail insert.  A reason longer than the column's 255 characters  *)
(* makes the WasteLog insert raise.                                        *)
(***************************************************************************)
ProductKey(product) ==
    IF product.firebase_id = None THEN product.id ELSE product.firebase_id

add_waste_api(db, req) ==
    LET h == "add_waste_api"
        parsed == ParseFloat(req.quantity, Zero)
        waste_qty == parsed.val
        matching == ProductsMatching(db, req.productId)
    IN
    IF req.body # "object"
    THEN Returned(db, ExceptException(h, req, BodyException(req.body)))
    ELSE IF parsed.exc # None
    THEN Returned(db, ExceptException(h, req, parsed.exc))
    ELSE IF req.productId = None \/ FLe(waste_qty, Zero)
    THEN Returned(db, JsonResponse(h, req, FALSE, "Invalid product or quantity", NoPayload))
    ELSE IF req.fault = 1
    THEN Returned(db, ExceptException(h, req, "DatabaseError"))
    ELSE IF matching = {}
    THEN Returned(db, JsonResponse(h, req, FALSE, "Product not found", NoPayload))
    ELSE IF Cardinality(matching) > 1
    THEN Returned(db, ExceptException(h, req, "MultipleObjectsReturned"))
    ELSE
    LET product == CHOOSE p \in matching : TRUE
        inventory_b == OrZero(product.inventory_b)
        new_inventory_b == FSub(inventory_b, waste_qty)
        saved == SaveProduct(db, [product EXCEPT !.inventory_b = new_inventory_b])
        logged == [saved EXCEPT !.wasteLogs =
                      Append(@, [product_firebase_id |-> ProductKey(product),
                                 quantity |-> waste_qty])]
    IN
    IF FLt(inventory_b, waste_qty)
    THEN Returned(db, JsonResponse(h, req, FALSE, "Insufficient stock in Inventory B", NoPayload))
    ELSE IF req.fault = 2
    THEN Returned(db, ExceptException(h, req, "DatabaseError"))
    ELSE IF req.fault = 3
    THEN Returned(saved, ExceptException(h, req, "DatabaseError"))
    ELSE IF req.reason = "TooLong"
    THEN Returned(saved, ExceptException(h, req, "DataError"))
    ELSE Returned(log_audit(logged, "Waste Recorded", req.fault = 4),
                  JsonResponse(h, req, TRUE, "Successfully recorded",
                               [newInventoryA |-> FNone,
                                newInventoryB |-> new_inventory_b]))

(***************************************************************************)
(* calculate_max_servings(product_firebase_id, recipe_id).                 *)
(* The result is PyInt(n), or PyNone when the recipe is not found or an    *)
(* exception was caught (int() of NaN raises ValueError).                  *)
(***************************************************************************)
PyNone == [k |-> "none", v |-> 0]
PyInt(n) == [k |-> "int", v |-> n]

\* str.strip() on the identifiers of the model
Strip(s) ==
    CASE s = " f2 " -> "f2"
      [] s = "  " -> ""
      [] OTHER -> s

\* int(x / n) for n > 0: the quotient truncated toward zero
TruncDiv(x, n) == IF x >= 0 THEN x \div n ELSE -((-x) \div n)

\* Recipe.objects.get(id=recipe_id), else Recipe.objects.get(firebase_id=str(recipe_id))
RecipesFound(db, recipe_id) ==
    LET byId == {r \in db.recipes : r.id = recipe_id}
    IN IF byId # {} THEN byId
       ELSE {r \in db.recipes : r.firebase_id = recipe_id}

\* the mutated filter: rows linked by recipe_firebase_id only are missed
IngredientsByRecipeId(db, recipe) ==
    {i \in db.recipeIngredients : i.recipe_id = recipe.id}

\* RecipeIngredient.objects.filter(Q(recipe_id=recipe.id) | Q(recipe_firebase_id=recipe.firebase_id))
IngredientsOf(db, recipe) ==
    {i \in db.recipeIngredients :
        i.recipe_id = recipe.id \/ i.recipe_firebase_id = recipe.firebase_id}

\* ingredient.ingredient_firebase_id.strip() if ingredient.ingredient_firebase_id else ''
IngredientProductId(ingredient) ==
    IF ingredient.ingredient_firebase_id \in {None, ""} THEN ""
    ELSE Strip(ingredient.ingredient_firebase_id)

\* the mutated skip test: a zero quantity is not skipped
SkippedOnlyWithoutId(ingredient) == IngredientProductId(ingredient) = ""

\* if not ingredient_product_id or quantity_needed == 0: continue
Skipped(ingredient) ==
    \/ IngredientProductId(ingredient) = ""
    \/ FEq(OrZero(ingredient.quantity_needed), Zero)

\* the mutated stock: the warehouse counter instead of the usable one
AvailableQuantityA(product) == OrZero(product.inventory_a)

\* available_quantity = float(ing_product.inventory_b or 0)
AvailableQuantity(product) == OrZero(product.inventory_b)

\* the body of the loop for an ingredient that is not skipped: the servings
\* appended to max_servings_list, or the exception int() raises
MaxForIngredient(db, ingredient) ==
    LET found == {p \in db.products : p.firebase_id = IngredientProductId(ingredient)}
        quantity_needed == OrZero(ingredient.quantity_needed)
    IN IF found = {} THEN [exc |-> None, v |-> 0]
       ELSE LET available_quantity == AvailableQuantity(CHOOSE p \in found : TRUE)
            IN IF FLt(Zero, quantity_needed)
               THEN IF IsNum(available_quantity)
                    THEN [exc |-> None,
                          v |-> TruncDiv(available_quantity.v, quantity_needed.v)]
                    ELSE [exc |-> "ValueError", v |-> 0]
               ELSE [exc |-> None, v |-> 0]

\* the mutated result: no default for an empty list
BottleneckNoDefault(max_servings_list) ==
    IF max_servings_list = {} THEN PyNone
    ELSE PyInt(CHOOSE m \in max_servings_list : \A n \in max_servings_list : m <= n)

\* min(max_servings_list) if max_servings_list else 0
Bottleneck(max_servings_list) ==
    IF max_servings_list = {} THEN PyInt(0)
    ELSE PyInt(CHOOSE m \in max_servings_list : \A n \in max_servings_list : m <= n)

calculate_max_servings(db, recipe_id) ==
    LET found == RecipesFound(db, recipe_id)
    IN IF found = {} THEN PyNone
       ELSE LET recipe == CHOOSE r \in found : TRUE
                counted == {i \in IngredientsOf(db, recipe) : ~Skipped(i)}
            IN IF \E i \in counted : MaxForIngredient(db, i).exc # None
               THEN PyNone
               ELSE Bottleneck({MaxForIngredient(db, i).v : i \in counted})

(***************************************************************************)
(* Recipes.  An element of the JSON list `ingredients` is an object with   *)
(* ingredientFirebaseId and quantityNeeded, or some other JSON value, on   *)
(* which ingredient.get raises AttributeError.                             *)
(***************************************************************************)
\* FloatField.get_prep_value on the value given to create(): None is passed
\* on as NULL, a number becomes a float, any other text raises ValueError
FieldFloat(raw) ==
    CASE raw.t \in {"absent", "null"} -> [exc |-> None, val |-> FNone]
      [] raw.t = "text" -> [exc |-> "ValueError", val |-> FNone]
      [] raw.t = "nan" -> [exc |-> None, val |-> NaN]
      [] raw.t = "num" -> [exc |-> None, val |-> F(raw.n)]

Item(ingredientFirebaseId, quantityNeeded) ==
    [object |-> TRUE, ingredientFirebaseId |-> ingredientFirebaseId,
     quantityNeeded |-> quantityNeeded]
NotAnObject == [object |-> FALSE, ingredientFirebaseId |-> None, quantityNeeded |-> Absent]

\* uuid.uuid4(): an identifier no row has yet
Uuids == {"u1", "u2"}
FreshUuids(db) == Uuids \ ({r.id : r \in db.recipes} \cup {p.id : p \in db.products})
uuid4(db) == CHOOSE u \in FreshUuids(db) : TRUE

\* the primary key RecipeIngredient.objects.create() inserts: a uuid4 where
\* add_recipe_api passes id=, the CharField default '' where update_recipe_api
\* passes none
\* (written <<"", 0>>)
IngredientPk(recipe, k, withId) == IF withId THEN <<recipe.id, k>> ELSE <<"", 0>>

RECURSIVE CreateIngredients(_, _, _, _, _, _)
\* for ingredient in ingredients: RecipeIngredient.objects.create(...), from the
\* k-th element on (ingredientName and unit are given); an insert of a null
\* into ingredient_firebase_id or quantity_needed, or of a primary key that
\* exists, raises IntegrityError
CreateIngredients(db, recipe, ingredients, k, withId, fault) ==
    IF k > Len(ingredients) THEN [db |-> db, exc |-> None]
    ELSE LET ingredient == ingredients[k]
             quantity_needed == FieldFloat(ingredient.quantityNeeded)
             pk == IngredientPk(recipe, k, withId)
             row == [id |-> pk, recipe_id |-> recipe.id,
                     recipe_firebase_id |-> recipe.firebase_id,
                     ingredient_firebase_id |-> ingredient.ingredientFirebaseId,
                     quantity_needed |-> quantity_needed.val]
         IN IF ~ingredient.object THEN [db |-> db, exc |-> "AttributeError"]
            ELSE IF quantity_needed.exc # None THEN [db |-> db, exc |-> quantity_needed.exc]
            ELSE IF fault /\ k = 1 THEN [db |-> db, exc |-> "DatabaseError"]
            ELSE IF ingredient.ingredientFirebaseId = None \/ quantity_needed.val = FNone
            THEN [db |-> db, exc |-> "IntegrityError"]
            ELSE IF \E i \in db.recipeIngredients : i.id = pk
            THEN [db |-> db, exc |-> "IntegrityError"]
            ELSE CreateIngredients(
                     [db EXCEPT !.recipeIngredients = @ \cup {row}],
                     recipe, ingredients, k + 1, withId, fault)

\* Recipe.objects.get(Q(id=recipe_id) | Q(firebase_id=recipe_id))
RecipesMatching(db, recipe_id) ==
    {r \in db.recipes : r.id = recipe_id \/ r.firebase_id = recipe_id}

\* the mutated check: the recipe is looked up by its own id
RecipeExistsById(db, product_firebase_id) ==
    \E r \in db.recipes : r.id = product_firebase_id

\* Recipe.objects.filter(product_firebase_id=product_firebase_id).exists()
RecipeExists(db, product_firebase_id) ==
    \E r \in db.recipes : r.product_firebase_id = product_firebase_id

(***************************************************************************)
(* add_recipe_api.  Statements: 1 the exists() query, 2 Recipe insert,     *)
(* 3 the first RecipeIngredient insert, 4 AuditTrail insert.               *)
(***************************************************************************)
add_recipe_api(db, req) ==
    LET h == "add_recipe_api"
        recipe_uuid == uuid4(db)
        recipe == [id |-> recipe_uuid, firebase_id |-> recipe_uuid,
                   product_firebase_id |-> req.productFirebaseId,
                   product_name |-> req.productName]
        created == [db EXCEPT !.recipes = @ \cup {recipe}]
        added == CreateIngredients(created, recipe, req.ingredients, 1, TRUE, req.fault = 3)
    IN
    IF req.body # "object"
    THEN Returned(db, ExceptException(h, req, BodyException(req.body)))
    ELSE IF req.productFirebaseId = None \/ req.productName = None
    THEN Returned(db, JsonResponse(h, req, FALSE, "Product information required", NoPayload))
    ELSE IF req.ingredients = <<>>
    THEN Returned(db, JsonResponse(h, req, FALSE, "At least one ingredient is required", NoPayload))
    ELSE IF req.fault = 1
    THEN Returned(db, ExceptException(h, req, "DatabaseError"))
    ELSE IF RecipeExists(db, req.productFirebaseId)
    THEN Returned(db, JsonResponse(h, req, FALSE, "Recipe already exists for this product", NoPayload))
    ELSE IF req.fault = 2
    THEN Returned(db, ExceptException(h, req, "DatabaseError"))
    ELSE IF added.exc # None
    THEN Returned(added.db, ExceptException(h, req, added.exc))
    ELSE Returned(log_audit(added.db, "Recipe Created", req.fault = 4),
                  JsonResponse(h, req, TRUE, "Recipe created successfully", NoPayload))

(***************************************************************************)
(* update_recipe_api.  Statements: 1 Recipe.objects.get, 2 recipe.save,    *)
(* 3 the delete of the old ingredients, 4 the first RecipeIngredient       *)
(* insert, 5 AuditTrail insert.  product_firebase_id and product_name are  *)
(* NOT NULL columns: recipe.save() with either missing is refused.         *)
(***************************************************************************)
update_recipe_api(db, req) ==
    LET h == "update_recipe_api"
        matching == RecipesMatching(db, req.recipeId)
    IN
    IF req.body # "object"
    THEN Returned(db, ExceptException(h, req, BodyException(req.body)))
    ELSE IF req.recipeId = None
    THEN Returned(db, JsonResponse(h, req, FALSE, "Recipe ID required", NoPayload))
    ELSE IF req.fault = 1
    THEN Returned(db, ExceptException(h, req, "DatabaseError"))
    ELSE IF matching = {}
    THEN Returned(db, JsonResponse(h, req, FALSE, "Recipe not found", NoPayload))
    ELSE IF Cardinality(matching) > 1
    THEN Returned(db, ExceptException(h, req, "MultipleObjectsReturned"))
    ELSE
    LET old == CHOOSE r \in matching : TRUE
        recipe == [old EXCEPT !.product_firebase_id = req.productFirebaseId,
                              !.product_name = req.productName]
        saved == [db EXCEPT !.recipes = (@ \ {old}) \cup {recipe}]
        deleted == [saved EXCEPT !.recipeIngredients = @ \ IngredientsOf(saved, recipe)]
        added == CreateIngredients(deleted, recipe, req.ingredients, 1, FALSE, req.fault = 4)
    IN
    IF req.fault = 2
    THEN Returned(db, ExceptException(h, req, "DatabaseError"))
    ELSE IF req.productFirebaseId = None \/ req.productName = None
    THEN Returned(db, ExceptException(h, req, "IntegrityError"))
    ELSE IF req.fault = 3
    THEN Returned(saved, ExceptException(h, req, "DatabaseError"))
    ELSE IF added.exc # None
    THEN Returned(added.db, ExceptException(h, req, added.exc))
    ELSE Returned(log_audit(added.db, "Recipe Updated", req.fault = 5),
                  JsonResponse(h, req, TRUE, "Recipe updated successfully", NoPayload))

(***************************************************************************)
(* delete_recipe_api.  Statements: 1 Recipe.objects.get, 2 the delete of   *)
(* the ingredients, 3 recipe.delete, 4 AuditTrail insert.                  *)
(***************************************************************************)
delete_recipe_api(db, req) ==
    LET h == "delete_recipe_api"
        matching == RecipesMatching(db, req.recipeId)
    IN
    IF req.body # "object"
    THEN Returned(db, ExceptException(h, req, BodyException(req.body)))
    ELSE IF req.recipeId = None
    THEN Returned(db, JsonResponse(h, req, FALSE, "Recipe ID required", NoPayload))
    ELSE IF req.fault = 1
    THEN Returned(db, ExceptException(h, req, "DatabaseError"))
    ELSE IF matching = {}
    THEN Returned(db, JsonResponse(h, req, FALSE, "Recipe not found", NoPayload))
    ELSE IF Cardinality(matching) > 1
    THEN Returned(db, ExceptException(h, req, "MultipleObjectsReturned"))
    ELSE
    LET recipe == CHOOSE r \in matching : TRUE
        deleted == [db EXCEPT !.recipeIngredients = @ \ IngredientsOf(db, recipe)]
        gone == [deleted EXCEPT !.recipes = @ \ {recipe}]
    IN
    IF req.fault = 2
    THEN Returned(db, ExceptException(h, req, "DatabaseError"))
    ELSE IF req.fault = 3
    THEN Returned(deleted, ExceptException(h, req, "DatabaseError"))
    ELSE Returned(log_audit(gone, "Recipe Deleted", req.fault = 4),
                  JsonResponse(h, req, TRUE, "Recipe deleted successfully", NoPayload))

(***************************************************************************)
(* add_product_view.  Statements: 1 Product insert, 2 AuditTrail insert.   *)
(***************************************************************************)
add_product_view(db, req) ==
    LET h == "add_product_view"
        product_uuid == uuid4(db)
        quantity == ParseFloat(req.quantity, Zero)
        price == ParseFloat(req.price, Zero)
        inventory_a == ParseFloat(req.inventoryA, quantity.val)
        inventory_b == ParseFloat(req.inventoryB, Zero)
        cost_per_unit == ParseFloat(req.costPerUnit, Zero)
        raised == SelectSeq(<<quantity.exc, price.exc, inventory_a.exc, inventory_b.exc,
                              cost_per_unit.exc>>, LAMBDA x : x # None)
        product == [id |-> product_uuid, firebase_id |-> product_uuid, name |-> req.name,
                    inventory_a |-> inventory_a.val, inventory_b |-> inventory_b.val]
        created == [db EXCEPT !.products = @ \cup {product}]
    IN
    IF req.body # "object"
    THEN Returned(db, ExceptException(h, req, BodyException(req.body)))
    ELSE IF raised # <<>>
    THEN Returned(db, ExceptException(h, req, Head(raised)))
    ELSE IF req.fault = 1
    THEN Returned(db, ExceptException(h, req, "DatabaseError"))
    ELSE Returned(log_audit(created, "Product Added", req.fault = 2),
                  JsonResponse(h, req, TRUE, "Product added successfully", NoPayload))

(***************************************************************************)
(* update_product_view.  Statements: 1 Product.objects.get, 2 product.save,*)
(* 3 AuditTrail insert.  A field is updated when its key is in the body.   *)
(***************************************************************************)
Present(raw) == raw.t # "absent"

update_product_view(db, req) ==
    LET h == "update_product_view"
        matching == ProductsMatching(db, req.id)
    IN
    IF req.body # "object"
    THEN Returned(db, ExceptException(h, req, BodyException(req.body)))
    ELSE IF req.id = None
    THEN Returned(db, JsonResponse(h, req, FALSE, "Product ID is required", NoPayload))
    ELSE IF req.fault = 1
    THEN Returned(db, ExceptException(h, req, "DatabaseError"))
    ELSE IF matching = {}
    THEN Returned(db, JsonResponse(h, req, FALSE, "Product not found", NoPayload))
    ELSE IF Cardinality(matching) > 1
    THEN Returned(db, ExceptException(h, req, "MultipleObjectsReturned"))
    ELSE
    LET product == CHOOSE p \in matching : TRUE
        price == ParseFloat(req.price, Zero)
        quantity_val == ParseFloat(req.quantity, Zero)
        inventory_a == ParseFloat(req.inventoryA, Zero)
        inventory_b == ParseFloat(req.inventoryB, Zero)
        cost_per_unit == ParseFloat(req.costPerUnit, Zero)
        raised == SelectSeq(<<price.exc, quantity_val.exc, inventory_a.exc, inventory_b.exc,
                              cost_per_unit.exc>>, LAMBDA x : x # None)
        from_quantity ==
            IF Present(req.quantity) /\ ~Present(req.inventoryA) /\ ~Present(req.inventoryB)
            THEN [product EXCEPT !.inventory_a = quantity_val.val] ELSE product
        with_a == IF Present(req.inventoryA)
                  THEN [from_quantity EXCEPT !.inventory_a = inventory_a.val]
                  ELSE from_quantity
        with_b == IF Present(req.inventoryB)
                  THEN [with_a EXCEPT !.inventory_b = inventory_b.val]
                  ELSE with_a
    IN
    IF raised # <<>>
    THEN Returned(db, ExceptException(h, req, Head(raised)))
    ELSE IF req.fault = 2
    THEN Returned(db, ExceptException(h, req, "DatabaseError"))
    ELSE Returned(log_audit(SaveProduct(db, with_b), "Product Updated", req.fault = 3),
                  JsonResponse(h, req, TRUE, "Product updated successfully", NoPayload))

(***************************************************************************)
(* delete_product_view.  Statements: 1 Product.objects.get,                *)
(* 2 product.delete, 3 AuditTrail insert.                                  *)
(***************************************************************************)
delete_product_view(db, req) ==
    LET h == "delete_product_view"
        matching == ProductsMatching(db, req.id)
    IN
    IF req.body # "object"
    THEN Returned(db, ExceptException(h, req, BodyException(req.body)))
    ELSE IF req.id = None
    THEN Returned(db, JsonResponse(h, req, FALSE, "Product ID is required", NoPayload))
    ELSE IF req.fault = 1
    THEN Returned(db, ExceptException(h, req, "DatabaseError"))
    ELSE IF matching = {}
    THEN Returned(db, JsonResponse(h, req, FALSE, "Product not found", NoPayload))
    ELSE IF Cardinality(matching) > 1
    THEN Returned(db, ExceptException(h, req, "MultipleObjectsReturned"))
    ELSE IF req.fault = 2
    THEN Returned(db, ExceptException(h, req, "DatabaseError"))
    ELSE Returned(log_audit([db EXCEPT !.products = @ \ matching], "Product Deleted",
                            req.fault = 3),
                  JsonResponse(h, req, TRUE, "Product deleted successfully", NoPayload))

(***************************************************************************)
(* train_forecasting_model.  Statements: 1 sales.count() and the reads     *)
(* after it, 2 the first MLPrediction update_or_create, 3 the MLModel      *)
(* update_or_create, 4 AuditTrail insert.  The clock counts ticks of which *)
(* TicksPerDay make a day.  req.order is the order in which                *)
(* Product.objects.all() yields the rows; req.aware says that the stored   *)
(* order_date values come back timezone-aware (USE_TZ), so that            *)
(* datetime.now() - order_date raises TypeError.                           *)
(* A usage is the quotient num / den of two integers.                      *)
(***************************************************************************)
\* Sale.objects.filter(Q(product_firebase_id=product.firebase_id) | Q(product_name=product.name));
\* a firebase_id of None is compared with IS NULL
ProductSales(db, product) ==
    {x \in db.sales : x.product_firebase_id = product.firebase_id
                      \/ x.product_name = product.name}

RECURSIVE SumQuantity(_)
\* sum(s['quantity'] for s in sales_data if s['quantity'])
SumQuantity(rows) ==
    IF rows = {} THEN 0
    ELSE LET x == CHOOSE y \in rows : TRUE
         IN x.quantity + SumQuantity(rows \ {x})

\* min(s['order_date'] for s in sales_data if s['order_date'])
EarliestOrder(rows) ==
    CHOOSE d \in {x.order_date : x \in rows} : \A x \in rows : d <= x.order_date

\* (datetime.now() - earliest).days or 1, then max(days, 1)
DaysSince(t, earliest) ==
    LET days == (t - earliest) \div TicksPerDay
    IN IF days = 0 \/ days < 1 THEN 1 ELSE days

\* the mutated buffer: 20% instead of 10%
WithBuffer20(avg_daily_usage) ==
    [num |-> avg_daily_usage.num * 12, den |-> avg_daily_usage.den * 10]

\* predicted_daily_usage = avg_daily_usage * 1.1
WithBuffer(avg_daily_usage) ==
    [num |-> avg_daily_usage.num * 11, den |-> avg_daily_usage.den * 10]

\* min(0.9, 0.5 + (len(sales_data) / 100)), in hundredths
Confidence(n) == IF 50 + n < 90 THEN 50 + n ELSE 90

\* the row MLPrediction.objects.update_or_create writes for a product
Prediction(db, product, t) ==
    LET product_sales == ProductSales(db, product)
        total_quantity == SumQuantity(product_sales)
        avg_daily_usage == [num |-> total_quantity,
                            den |-> DaysSince(t, EarliestOrder(product_sales))]
    IN [product_firebase_id |-> ProductKey(product),
        product_name |-> product.name,
        predicted_daily_usage |-> WithBuffer(avg_daily_usage),
        avg_daily_usage |-> avg_daily_usage,
        confidence_score |-> Confidence(Cardinality(product_sales)),
        data_points |-> Cardinality(product_sales)]

RECURSIVE PredictAll(_, _, _, _, _, _)
\* for product in products: ..., from the k-th product of the order on
PredictAll(db, order, k, t, req, created) ==
    IF k > Len(order) THEN [db |-> db, exc |-> None, created |-> created]
    ELSE LET product == order[k]
             row == Prediction(db, product, t)
         IN IF Cardinality(ProductSales(db, product)) < MinProductSales
            THEN PredictAll(db, order, k + 1, t, req, created)
            ELSE IF req.aware
            THEN [db |-> db, exc |-> "TypeError", created |-> created]
            ELSE IF req.fault = 2 /\ created = 0
            THEN [db |-> db, exc |-> "DatabaseError", created |-> created]
            ELSE PredictAll(
                     [db EXCEPT !.mlPredictions =
                         {r \in @ : r.product_firebase_id # row.product_firebase_id}
                         \cup {row}],
                     order, k + 1, t, req, created + 1)

\* the mutated threshold: the per-product minimum is used for the table
InsufficientForProduct(sales_count) == sales_count < MinProductSales

\* if sales_count < 10
InsufficientData(sales_count) == sales_count < MinSales

train_forecasting_model(db, req, t) ==
    LET h == "train_forecasting_model"
        sales_count == Cardinality(db.sales)
        predicted == PredictAll(db, req.order, 1, t, req, 0)
        model == [name |-> "inventory_forecasting", is_trained |-> TRUE,
                  last_trained |-> t, total_records |-> sales_count,
                  products_analyzed |-> Cardinality(db.products),
                  predictions_generated |-> predicted.created]
        trained == [predicted.db EXCEPT !.mlModels =
                       {m \in @ : m.name # model.name} \cup {model}]
    IN
    IF req.fault = 1
    THEN Returned(db, ExceptException(h, req, "DatabaseError"))
    ELSE IF InsufficientData(sales_count)
    THEN Returned(db, JsonResponse(h, req, FALSE, "Insufficient data for training", NoPayload))
    ELSE IF predicted.exc # None
    THEN Returned(predicted.db, ExceptException(h, req, predicted.exc))
    ELSE IF req.fault = 3
    THEN Returned(predicted.db, ExceptException(h, req, "DatabaseError"))
    ELSE Returned(log_audit(trained, "Model Trained", req.fault = 4),
                  JsonResponse(h, req, TRUE, "Model trained successfully", NoPayload))

(***************************************************************************)
(* check_firebase_connectivity (firebase_utils.py).  The cache entry       *)
(* expires FIREBASE_HEALTH_CACHE_TIMEOUT seconds after cache.set; the      *)
(* clock counts seconds.  The environment is "uninitialized" (no Firebase  *)
(* app), "healthy", "auth_error" (the test query raises) or "client_error" *)
(* (the import or firestore.client() raises).                              *)
(***************************************************************************)
FirebaseStates == {"uninitialized", "healthy", "auth_error", "client_error"}

Status(is_healthy, t, message) ==
    [is_healthy |-> is_healthy, last_checked |-> t, message |-> message,
     cached |-> FALSE]

NoCache == [present |-> FALSE, status |-> Status(FALSE, 0, ""), expires |-> 0]

\* cache.get(FIREBASE_HEALTH_CACHE_KEY): the entry, unless it has expired
CacheGet(entry, t) ==
    [hit |-> entry.present /\ t < entry.expires, status |-> entry.status]

\* the mutated cache.set: the entry never expires
CacheSetForever(status, t) ==
    [present |-> TRUE, status |-> status, expires |-> t + MaxTime + FIREBASE_HEALTH_CACHE_TIMEOUT]

\* cache.set(FIREBASE_HEALTH_CACHE_KEY, status, FIREBASE_HEALTH_CACHE_TIMEOUT)
CacheSet(status, t) ==
    [present |-> TRUE, status |-> status, expires |-> t + FIREBASE_HEALTH_CACHE_TIMEOUT]

\* the result: the cache entry after the call, the status returned and
\* whether the Firestore test query was made
check_firebase_connectivity(entry, env, t) ==
    LET cached_status == CacheGet(entry, t)
        not_initialized == Status(FALSE, t, "Firebase not initialized")
        accessible == Status(TRUE, t, "Firebase is accessible")
        auth_failed == Status(FALSE, t, "Authentication failed")
        failed == Status(FALSE, t, "Error")
    IN IF cached_status.hit
       THEN [cache |-> entry, status |-> [cached_status.status EXCEPT !.cached = TRUE],
             queried |-> FALSE]
       ELSE CASE env = "uninitialized" ->
                   [cache |-> CacheSet(not_initialized, t), status |-> not_initialized,
                    queried |-> FALSE]
              [] env = "healthy" ->
                   [cache |-> CacheSet(accessible, t), status |-> accessible,
                    queried |-> TRUE]
              [] env = "auth_error" ->
                   [cache |-> CacheSet(auth_failed, t), status |-> auth_failed,
                    queried |-> TRUE]
              [] env = "client_error" ->
                   [cache |-> entry, status |-> failed, queried |-> FALSE]

(***************************************************************************)
(* The state machine.                                                      *)
(***************************************************************************)
NoCall == [handler |-> "none"]
\* no request is being handled and none has been answered
NoRequests == [before |-> {}, running |-> {}, done |-> {}]

\* the rows of table products that the stock specifications start from
Product(id, firebase_id, name, a, b) ==
    [id |-> id, firebase_id |-> firebase_id, name |-> name,
     inventory_a |-> a, inventory_b |-> b]

Stock == {F(n) : n \in 0..MaxStock}

Apply(r) ==
    /\ products' = r.db.products
    /\ wasteLogs' = r.db.wasteLogs
    /\ auditTrail' = r.db.auditTrail
    /\ recipes' = r.db.recipes
    /\ recipeIngredients' = r.db.recipeIngredients
    /\ sales' = r.db.sales
    /\ mlPredictions' = r.db.mlPredictions
    /\ mlModels' = r.db.mlModels
    /\ last' = r.resp
    /\ UNCHANGED <<cache, firebase, now, queries, inflight>>

\* the tables that grow with every request stay within the bound
Bounded == Len(auditTrail) < MaxAudit /\ Len(wasteLogs) < MaxAudit

EmptyTables ==
    /\ wasteLogs = <<>>
    /\ auditTrail = <<>>
    /\ recipes = {}
    /\ recipeIngredients = {}
    /\ sales = {}
    /\ mlPredictions = {}
    /\ mlModels = {}

NoFirebase ==
    /\ cache = NoCache
    /\ firebase = "healthy"
    /\ now = 0
    /\ queries = [count |-> 0, lastAt |-> -1, checkedAt |-> -1]

InitStock ==
    /\ \E a \in Stock, b \in Stock :
          products = {Product("p1", "p1", "Latte", a, b),
                      Product("p2", "f2", "Milk", F(1), F(1))}
    /\ EmptyTables
    /\ NoFirebase
    /\ last = NoCall
    /\ inflight = NoRequests

\* the requests: the fields of a body that is no JSON object are never read
TransferRequests ==
    {[body |-> body, productId |-> None, quantity |-> Absent, fault |-> 0] :
        body \in Bodies \ {"object"}}
    \cup [body : {"object"}, productId : ProductIdInputs, quantity : Quantities,
          fault : 0..3]

WasteRequests ==
    {[body |-> body, productId |-> None, quantity |-> Absent, reason |-> "Expired",
      fault |-> 0] : body \in Bodies \ {"object"}}
    \cup [body : {"object"}, productId : ProductIdInputs, quantity : Quantities,
          reason : Reasons, fault : 0..4]

TransferInventory ==
    /\ Bounded
    /\ \E req \in TransferRequests : Apply(transfer_inventory_api(DB, req))

AddWaste ==
    /\ Bounded
    /\ \E req \in WasteRequests : Apply(add_waste_api(DB, req))

\* transfer requests only, one at a time
SpecTransfer == InitStock /\ [][TransferInventory]_vars
\* waste requests only, one at a time
SpecWaste == InitStock /\ [][AddWaste]_vars

\* transfer and waste requests for product p1 in any order, one at a time,
\* with a database that does not fail
TransferOrWaste ==
    /\ Bounded
    /\ \/ \E req \in {r \in TransferRequests : r.fault = 0 /\ r.productId # "f2"} :
             Apply(transfer_inventory_api(DB, req))
       \/ \E req \in {r \in WasteRequests : r.fault = 0 /\ r.productId # "f2"
                                            /\ r.reason = "Expired"} :
             Apply(add_waste_api(DB, req))

SpecStock == InitStock /\ [][TransferOrWaste]_vars

\* waste requests whose quantity is not NaN, with a database that may fail
\* at any statement
AddNumericWaste ==
    /\ Bounded
    /\ \E req \in {r \in WasteRequests : r.quantity # JNaN} :
          Apply(add_waste_api(DB, req))

SpecNumericWaste == InitStock /\ [][AddNumericWaste]_vars

(***************************************************************************)
(* The recipes calculate_max_servings is applied to: up to MaxRows rows of *)
(* recipe_ingredients linked to recipe r1 by recipe_id or by               *)
(* recipe_firebase_id, and one row of recipe r2; quantity_needed is what   *)
(* add_recipe_api stored, unvalidated.                                     *)
(***************************************************************************)
Recipe(id, firebase_id, product_firebase_id, product_name) ==
    [id |-> id, firebase_id |-> firebase_id,
     product_firebase_id |-> product_firebase_id, product_name |-> product_name]

Ingredient(id, recipe_id, recipe_firebase_id, ingredient_firebase_id, quantity_needed) ==
    [id |-> id, recipe_id |-> recipe_id, recipe_firebase_id |-> recipe_firebase_id,
     ingredient_firebase_id |-> ingredient_firebase_id,
     quantity_needed |-> quantity_needed]

\* odd rows are linked to r1 by recipe_id, even rows by recipe_firebase_id
RowLink(i) == IF i % 2 = 1 THEN <<"r1", "r1x">> ELSE <<None, "rf1">>
RowIngredients == {None, "p1", " f2 ", "gone"}
RowQuantities == {FNone, NaN} \cup {F(n) : n \in (-1)..MaxStock}
RowKinds == [ingredient : RowIngredients, quantity : RowQuantities]
NoRow == [ingredient |-> "absent", quantity |-> FNone]
RowId(i) == <<"i", i>>

InitServings ==
    /\ \E b1 \in {F(n) : n \in (-1)..MaxStock} \cup {NaN}, b2 \in {F(1), F(MaxStock)} :
          products = {Product("p1", "p1", "Latte", F(MaxStock + 1), b1),
                      Product("p2", "f2", "Milk", F(MaxStock + 1), b2)}
    /\ recipes = {Recipe("r1", "rf1", "p1", "Latte"), Recipe("r2", "rf2", "p9", "Mocha")}
    /\ \E rows \in [1..MaxRows -> RowKinds \cup {NoRow}] :
          recipeIngredients =
              {Ingredient(RowId(i), RowLink(i)[1], RowLink(i)[2],
                          rows[i].ingredient, rows[i].quantity) :
                  i \in {j \in 1..MaxRows : rows[j] # NoRow}}
              \cup {Ingredient(RowId(0), "r2", "rf2", "gone", F(1))}
    /\ wasteLogs = <<>>
    /\ auditTrail = <<>>
    /\ sales = {}
    /\ mlPredictions = {}
    /\ mlModels = {}
    /\ NoFirebase
    /\ last = NoCall
    /\ inflight = NoRequests

RecipeIdInputs == {"r1", "rf1", "zz"}

CalculateMaxServings ==
    /\ \E recipe_id \in RecipeIdInputs :
          last' = [handler |-> "calculate_max_servings", recipe_id |-> recipe_id,
                   result |-> calculate_max_servings(DB, recipe_id)]
    /\ UNCHANGED <<products, wasteLogs, auditTrail, recipes, recipeIngredients, sales,
                   mlPredictions, mlModels, cache, firebase, now, queries, inflight>>

SpecServings == InitServings /\ [][CalculateMaxServings]_vars

(***************************************************************************)
(* Properties of calculate_max_servings.                                   *)
(***************************************************************************)
\* the rows of the recipe the last call was about (recipe r1, found by id
\* or by firebase_id)
CalledOnRecipe ==
    /\ last.handler = "calculate_max_servings"
    /\ last.recipe_id \in {"r1", "rf1"}
RowsOfCall ==
    {i \in recipeIngredients : i.recipe_id = "r1" \/ i.recipe_firebase_id = "rf1"}
\* the ingredient names no product, or its quantity is zero or missing
IsSkipRow(i) ==
    \/ i.ingredient_firebase_id = None
    \/ i.quantity_needed = FNone
    \/ i.quantity_needed = Zero
CountedRows == {i \in RowsOfCall : ~IsSkipRow(i)}
\* the stock of the product an ingredient row names ("gone" names none)
StockOf(i) ==
    LET named == IF i.ingredient_firebase_id = " f2 " THEN "f2"
                 ELSE i.ingredient_firebase_id
    IN (CHOOSE p \in products : p.firebase_id = named).inventory_b
HasProduct(i) == i.ingredient_firebase_id \in {"p1", " f2 "}
Servings == (-(MaxStock + 1))..(MaxStock + 1)
\* t = floor(x / n), for n # 0
IsFloorQuotient(t, x, n) ==
    IF n > 0 THEN t * n <= x /\ x < (t + 1) * n
    ELSE t * n >= x /\ x > (t + 1) * n
\* t = x / n truncated toward zero, for n > 0
IsTruncQuotient(t, x, n) ==
    IF x >= 0 THEN t >= 0 /\ t * n <= x /\ x < (t + 1) * n
    ELSE t <= 0 /\ t * n >= x /\ x > (t - 1) * n

IsContribution(t, i) ==
    IF FLt(Zero, i.quantity_needed)
    THEN IsTruncQuotient(t, StockOf(i).v, i.quantity_needed.v)
    ELSE t = 0
\* the division of this ingredient raises: the stock is NaN
Raises(i) == FLt(Zero, i.quantity_needed) /\ ~IsNum(StockOf(i))

C6_ZeroQuantitySkipped ==
    CalledOnRecipe =>
        \A i \in RowsOfCall :
            (i.quantity_needed = FNone \/ i.quantity_needed = Zero)
            => last.result = calculate_max_servings(
                   [DB EXCEPT !.recipeIngredients = @ \ {i}], last.recipe_id)

\* C6 witness: a row of zero or missing quantity naming a product, beside a
\* counted row that gives a positive result
C6_Witness ==
    /\ CalledOnRecipe
    /\ \E i \in RowsOfCall : i.quantity_needed \in {Zero, FNone} /\ HasProduct(i)
    /\ CountedRows # {}
    /\ last.result.k = "int" /\ last.result.v > 0

\* C7: for an existing recipe without ingredient rows the result is 0.
C7_NoIngredientsZero ==
    (CalledOnRecipe /\ RowsOfCall = {}) => last.result = PyInt(0)

\* C7 witness: the recipe exists, has no row (another recipe has), and the
\* call returned
C7_Witness ==
    /\ CalledOnRecipe
    /\ RowsOfCall = {}
    /\ recipeIngredients # {}
    /\ last.result = PyInt(0)

(***************************************************************************)
(* Training: the sales table holds nA sales of product p1 (matched by      *)
(* product_firebase_id), nB sales of product p2 (matched by name), nC      *)
(* sales without product_firebase_id (matched by product p3, whose         *)
(* firebase_id is NULL) and nD sales of no product.                        *)
(***************************************************************************)
Sale(id, product_firebase_id, product_name, quantity, order_date) ==
    [id |-> id, product_firebase_id |-> product_firebase_id,
     product_name |-> product_name, quantity |-> quantity, order_date |-> order_date]

SalesTable(nA, nB, nC, nD) ==
    {Sale(<<"A", k>>, "p1", "Latte", k % 3, k - 1) : k \in 1..nA}
    \cup {Sale(<<"B", k>>, "old", "Milk", 1 + (k % 2), k) : k \in 1..nB}
    \cup {Sale(<<"C", k>>, None, "Loose", 2, 0) : k \in 1..nC}
    \cup {Sale(<<"D", k>>, "zz", "Other", 1, 0) : k \in 1..nD}

TrainProducts ==
    {Product("p1", "p1", "Latte", F(1), F(1)),
     Product("p2", "f2", "Milk", F(1), F(1)),
     Product("p3", None, "Tea", F(1), F(1))}

InitTrain ==
    /\ products = TrainProducts
    /\ \E nA \in 0..MaxGroup, nB \in 0..MaxGroup, nC \in {0, MinProductSales},
          nD \in {0, MinSales - MinProductSales, MinSales} :
          sales = SalesTable(nA, nB, nC, nD)
    /\ now \in 0..MaxNow
    /\ wasteLogs = <<>>
    /\ auditTrail = <<>>
    /\ recipes = {}
    /\ recipeIngredients = {}
    /\ mlPredictions = {}
    /\ mlModels = {}
    /\ cache = NoCache
    /\ firebase = "healthy"
    /\ queries = [count |-> 0, lastAt |-> -1, checkedAt |-> -1]
    /\ last = NoCall
    /\ inflight = NoRequests

\* the orders in which a query may yield the rows of a table
Orders(rows) ==
    {order \in [1..Cardinality(rows) -> rows] :
        \A i, j \in 1..Cardinality(rows) : order[i] = order[j] => i = j}

TrainRequests(db) ==
    [fault : 0..4, aware : {FALSE}, order : Orders(db.products)]
    \cup [fault : {0}, aware : {TRUE}, order : Orders(db.products)]

TrainForecastingModel ==
    /\ Bounded
    /\ \E req \in TrainRequests(DB) : Apply(train_forecasting_model(DB, req, now))

SpecTrain == InitTrain /\ [][TrainForecastingModel]_vars

(***************************************************************************)
(* Training again: the tables hold what an earlier training left (a        *)
(* prediction for p1, a prediction for a product that was deleted since,   *)
(* the model row), the mobile app may have removed sales since, and there  *)
(* may be a product without firebase_id whose id is the firebase_id of p2, *)
(* so that both have the prediction key 'f2'.  The clock stands still.     *)
(***************************************************************************)
StalePrediction(key) ==
    [product_firebase_id |-> key, product_name |-> "Old",
     predicted_daily_usage |-> [num |-> 11, den |-> 10],
     avg_daily_usage |-> [num |-> 1, den |-> 1],
     confidence_score |-> Confidence(MinProductSales),
     data_points |-> MinProductSales]

StaleModel ==
    [name |-> "inventory_forecasting", is_trained |-> TRUE, last_trained |-> 0,
     total_records |-> MinSales, products_analyzed |-> 1, predictions_generated |-> 1]

InitRetrain ==
    /\ \E twin \in BOOLEAN :
          products = TrainProducts
                     \cup IF twin THEN {Product("f2", None, "Tea", F(1), F(1))} ELSE {}
    /\ \E nA \in {0, MinProductSales}, nB \in {0, MinProductSales},
          nC \in {0, MinProductSales},
          nD \in {0, MinSales - MinProductSales, MinSales} :
          sales = SalesTable(nA, nB, nC, nD)
    /\ now \in {0, MaxNow}
    /\ mlPredictions \in SUBSET {StalePrediction("p1"), StalePrediction("gone")}
    /\ mlModels \in {{}, {StaleModel}}
    /\ wasteLogs = <<>>
    /\ auditTrail = <<>>
    /\ recipes = {}
    /\ recipeIngredients = {}
    /\ cache = NoCache
    /\ firebase = "healthy"
    /\ queries = [count |-> 0, lastAt |-> -1, checkedAt |-> -1]
    /\ last = NoCall
    /\ inflight = NoRequests

RetrainRequests(db) == [fault : 0..1, aware : {FALSE}, order : Orders(db.products)]

Retrain ==
    /\ Bounded
    /\ \E req \in RetrainRequests(DB) : Apply(train_forecasting_model(DB, req, now))

SpecRetrain == InitRetrain /\ [][Retrain]_vars

(***************************************************************************)
(* The health check, the clock and the Firebase environment.               *)
(***************************************************************************)
InitHealth ==
    /\ products = {}
    /\ EmptyTables
    /\ cache = NoCache
    /\ firebase \in FirebaseStates
    /\ now = 0
    /\ queries = [count |-> 0, lastAt |-> -1, checkedAt |-> -1]
    /\ last = NoCall
    /\ inflight = NoRequests

CheckFirebase ==
    LET r == check_firebase_connectivity(cache, firebase, now)
    IN /\ cache' = r.cache
       /\ queries' = [count |-> IF r.queried THEN queries.count + 1 ELSE queries.count,
                       lastAt |-> IF r.queried THEN now ELSE queries.lastAt,
                       checkedAt |-> IF r.status.cached THEN queries.checkedAt ELSE now]
       /\ last' = [handler |-> "check_firebase_connectivity", result |-> r.status]
       /\ UNCHANGED <<products, wasteLogs, auditTrail, recipes, recipeIngredients, sales,
                      mlPredictions, mlModels, firebase, now, inflight>>

Tick ==
    /\ now < MaxTime
    /\ now' = now + 1
    /\ UNCHANGED <<products, wasteLogs, auditTrail, recipes, recipeIngredients, sales,
                   mlPredictions, mlModels, cache, firebase, queries, last, inflight>>

FirebaseChanges ==
    /\ firebase' \in FirebaseStates \ {firebase}
    /\ UNCHANGED <<products, wasteLogs, auditTrail, recipes, recipeIngredients, sales,
                   mlPredictions, mlModels, cache, now, queries, last, inflight>>

SpecHealth == InitHealth /\ [][CheckFirebase \/ Tick \/ FirebaseChanges]_vars

(***************************************************************************)
(* One request to any JSON POST handler, on a database as earlier requests *)
(* and the mobile app leave it: products p1 and p2 and perhaps a product   *)
(* whose id is the firebase_id of p2; no recipe, recipe r1 with two rows,  *)
(* r1 and r2 where r2 was saved by update_recipe_api (its row has the      *)
(* primary key ''), or r1 and a recipe whose id is the firebase_id of r1;  *)
(* no sales or enough sales to train.                                      *)
(***************************************************************************)
RecipeTables ==
    LET r1 == Recipe("r1", "rf1", "p1", "Latte")
        row1 == Ingredient(RowId(1), "r1", "rf1", "p1", F(1))
        row2 == Ingredient(RowId(2), None, "rf1", "f2", F(2))
    IN {[recipes |-> {}, rows |-> {}],
        [recipes |-> {r1}, rows |-> {row1, row2}],
        [recipes |-> {r1, Recipe("r2", "rf2", "f2", "Milk")},
         rows |-> {row1, Ingredient(<<"", 0>>, "r2", "rf2", "p1", F(1))}],
        [recipes |-> {r1, Recipe("rf1", "rf9", "p9", "Mocha")}, rows |-> {row1}]}

InitHandlers ==
    /\ \E b \in {Zero, F(MaxStock)}, twin \in BOOLEAN :
          products = {Product("p1", "p1", "Latte", F(1), b),
                      Product("p2", "f2", "Milk", F(1), F(1))}
                     \cup IF twin THEN {Product("f2", None, "Tea", F(1), F(1))} ELSE {}
    /\ \E table \in RecipeTables :
          recipes = table.recipes /\ recipeIngredients = table.rows
    /\ sales \in {{}, SalesTable(MinProductSales, MinProductSales, 0, MinSales)}
    /\ wasteLogs = <<>>
    /\ auditTrail = <<>>
    /\ mlPredictions = {}
    /\ mlModels = {}
    /\ cache = NoCache
    /\ firebase = "healthy"
    /\ now = MaxNow
    /\ queries = [count |-> 0, lastAt |-> -1, checkedAt |-> -1]
    /\ last = NoCall
    /\ inflight = NoRequests

\* the ingredients lists of the recipe requests
IngredientItems ==
    {NotAnObject, Item("p1", JNum(1)), Item("f2", JText), Item("f2", JNull)}
IngredientLists == UNION {[1..n -> IngredientItems] : n \in 0..MaxIngredients}

AddRecipeRequests ==
    {[body |-> body, productFirebaseId |-> None, productName |-> None,
      ingredients |-> <<>>, fault |-> 0] : body \in Bodies \ {"object"}}
    \cup [body : {"object"}, productFirebaseId : {None, "p1", "p9"},
          productName : {None, "Latte"}, ingredients : IngredientLists, fault : 0..4]

UpdateRecipeRequests ==
    {[body |-> body, recipeId |-> None, productFirebaseId |-> None, productName |-> None,
      ingredients |-> <<>>, fault |-> 0] : body \in Bodies \ {"object"}}
    \cup [body : {"object"}, recipeId : {None, "r1", "rf1", "zz"},
          productFirebaseId : {None, "p9"}, productName : {"Mocha"},
          ingredients : IngredientLists, fault : 0..5]

DeleteRecipeRequests ==
    {[body |-> body, recipeId |-> None, fault |-> 0] : body \in Bodies \ {"object"}}
    \cup [body : {"object"}, recipeId : {None, "r1", "rf1", "zz"}, fault : 0..4]

AddProductRequests ==
    {[body |-> body, name |-> "Tea", quantity |-> Absent, price |-> Absent,
      inventoryA |-> Absent, inventoryB |-> Absent, costPerUnit |-> Absent,
      fault |-> 0] : body \in Bodies \ {"object"}}
    \cup [body : {"object"}, name : {"Tea"}, quantity : {Absent, JNum(1)},
          price : {Absent, JText}, inventoryA : {Absent, JNull, JNum(-1)},
          inventoryB : {Absent, JNaN, JNum(MaxStock)}, costPerUnit : {Absent},
          fault : 0..2]

UpdateProductRequests ==
    {[body |-> body, id |-> None, quantity |-> Absent, price |-> Absent,
      inventoryA |-> Absent, inventoryB |-> Absent, costPerUnit |-> Absent,
      fault |-> 0] : body \in Bodies \ {"object"}}
    \cup [body : {"object"}, id : ProductIdInputs, quantity : {Absent, JNum(1)},
          price : {Absent, JText}, inventoryA : {Absent, JNull, JNum(-1)},
          inventoryB : {Absent, JNaN, JNum(MaxStock)}, costPerUnit : {Absent},
          fault : 0..3]

DeleteProductRequests ==
    {[body |-> body, id |-> None, fault |-> 0] : body \in Bodies \ {"object"}}
    \cup [body : {"object"}, id : ProductIdInputs, fault : 0..3]

\* no request has been handled yet
Idle == last = NoCall

PostTransfer == Idle /\ TransferInventory
PostWaste == Idle /\ AddWaste
PostTrain == Idle /\ TrainForecastingModel
AddRecipe == Idle /\ \E req \in AddRecipeRequests : Apply(add_recipe_api(DB, req))
UpdateRecipe == Idle /\ \E req \in UpdateRecipeRequests : Apply(update_recipe_api(DB, req))
DeleteRecipe == Idle /\ \E req \in DeleteRecipeRequests : Apply(delete_recipe_api(DB, req))
AddProduct == Idle /\ \E req \in AddProductRequests : Apply(add_product_view(DB, req))
UpdateProduct ==
    Idle /\ \E req \in UpdateProductRequests : Apply(update_product_view(DB, req))
DeleteProduct ==
    Idle /\ \E req \in DeleteProductRequests : Apply(delete_product_view(DB, req))

NextHandlers ==
    \/ PostTransfer
    \/ PostWaste
    \/ AddRecipe
    \/ UpdateRecipe
    \/ DeleteRecipe
    \/ AddProduct
    \/ UpdateProduct
    \/ DeleteProduct
    \/ PostTrain

SpecHandlers == InitHandlers /\ [][NextHandlers]_vars

(***************************************************************************)
(* Product and stock requests in any order, one at a time, on a database   *)
(* that does not fail; every number in a request is an ordinary number.    *)
(***************************************************************************)
NumericProductFields ==
    [quantity : {Absent, JNum(1)}, inventoryA : {Absent, JNum(-1), JNum(MaxStock)},
     inventoryB : {Absent, JNum(1)}]
NumericStockQuantities == {JNum(n) : n \in 0..MaxStock}

NewProduct ==
    /\ Bounded
    /\ FreshUuids(DB) # {}
    /\ \E f \in NumericProductFields :
          Apply(add_product_view(DB,
                    [body |-> "object", name |-> "Tea", quantity |-> f.quantity,
                     price |-> Absent, inventoryA |-> f.inventoryA,
                     inventoryB |-> f.inventoryB, costPerUnit |-> Absent, fault |-> 0]))

ChangeProduct ==
    /\ Bounded
    /\ \E f \in NumericProductFields, id \in {"p1", "zz"} :
          Apply(update_product_view(DB,
                    [body |-> "object", id |-> id, quantity |-> f.quantity,
                     price |-> Absent, inventoryA |-> f.inventoryA,
                     inventoryB |-> f.inventoryB, costPerUnit |-> Absent, fault |-> 0]))

MoveStock ==
    /\ Bounded
    /\ \E q \in NumericStockQuantities :
          Apply(transfer_inventory_api(DB,
                    [body |-> "object", productId |-> "p1", quantity |-> q, fault |-> 0]))

WasteStock ==
    /\ Bounded
    /\ \E q \in NumericStockQuantities :
          Apply(add_waste_api(DB,
                    [body |-> "object", productId |-> "p1", quantity |-> q,
                     reason |-> "Expired", fault |-> 0]))

NextProducts ==
    \/ NewProduct
    \/ ChangeProduct
    \/ MoveStock
    \/ WasteStock

SpecProducts == InitStock /\ [][NextProducts]_vars

(***************************************************************************)
(* Recipe requests in any order, one at a time, on a database that does    *)
(* not fail, starting without a recipe or with recipe r1 of product p1     *)
(* and its ingredient rows.                                                *)
(***************************************************************************)
InitRecipes ==
    /\ products = {Product("p1", "p1", "Latte", F(1), F(1)),
                   Product("p2", "f2", "Milk", F(1), F(1))}
    /\ \E table \in {t \in RecipeTables : Cardinality(t.recipes) <= 1} :
          recipes = table.recipes /\ recipeIngredients = table.rows
    /\ wasteLogs = <<>>
    /\ auditTrail = <<>>
    /\ sales = {}
    /\ mlPredictions = {}
    /\ mlModels = {}
    /\ NoFirebase
    /\ last = NoCall
    /\ inflight = NoRequests

SubmittedItems == {Item("p1", JNum(1)), Item("f2", JText)}
SubmittedLists == UNION {[1..n -> SubmittedItems] : n \in 0..MaxIngredients}
SubmittedRecipeIds == {"r1", "u1", "zz"}
SubmittedProducts == {"p1", "p9"}

CreateRecipe ==
    /\ Bounded
    /\ FreshUuids(DB) # {}
    /\ \E product \in SubmittedProducts, ingredients \in SubmittedLists :
          Apply(add_recipe_api(DB,
                    [body |-> "object", productFirebaseId |-> product,
                     productName |-> "Latte", ingredients |-> ingredients,
                     fault |-> 0]))

ChangeRecipe ==
    /\ Bounded
    /\ \E id \in SubmittedRecipeIds, product \in SubmittedProducts,
          ingredients \in SubmittedLists :
          Apply(update_recipe_api(DB,
                    [body |-> "object", recipeId |-> id, productFirebaseId |-> product,
                     productName |-> "Mocha", ingredients |-> ingredients,
                     fault |-> 0]))

RemoveRecipe ==
    /\ Bounded
    /\ \E id \in SubmittedRecipeIds :
          Apply(delete_recipe_api(DB, [body |-> "object", recipeId |-> id, fault |-> 0]))

NextRecipes ==
    \/ CreateRecipe
    \/ ChangeRecipe
    \/ RemoveRecipe

SpecRecipes == InitRecipes /\ [][NextRecipes]_vars

(***************************************************************************)
(* Interleaved requests.  The handlers run in separate worker threads or   *)
(* processes with no lock and no transaction around a request, so the      *)
(* database statements of two requests interleave.  transfer_inventory_api *)
(* and add_waste_api read the database once, at Product.objects.get; what  *)
(* they write afterwards is computed from the row read there.  A request   *)
(* in flight holds the statements it has still to run: product.save() of   *)
(* the row as the handler changed it (every column is written), the        *)
(* WasteLog insert and the AuditTrail insert.                              *)
(***************************************************************************)
MaxRequests == 2

\* the statements the handler runs after its read, from its result r on the
\* database db that it read
Statements(db, r) ==
    [save |-> r.db.products \ db.products,
     logs |-> SubSeq(r.db.wasteLogs, Len(db.wasteLogs) + 1, Len(r.db.wasteLogs)),
     audit |-> SubSeq(r.db.auditTrail, Len(db.auditTrail) + 1, Len(r.db.auditTrail))]

NoStatements == [save |-> {}, logs |-> <<>>, audit |-> <<>>]

Answered == Cardinality(inflight.running) + Cardinality(inflight.done)

\* the requests of the interleaved runs: well-formed, for product p1
RaceQuantities == {JNum(n) : n \in 1..MaxStock}
RaceTransfers ==
    [body : {"object"}, productId : {"p1"}, quantity : RaceQuantities, fault : {0}]
RaceWastes ==
    [body : {"object"}, productId : {"p1"}, quantity : RaceQuantities,
     reason : {"Expired"}, fault : {0}]

\* a request arrives and its handler runs up to and including its read
Begin(r) ==
    LET id == Answered + 1
        todo == Statements(DB, r)
    IN /\ IF todo = NoStatements
          THEN /\ last' = r.resp
               /\ inflight' = [inflight EXCEPT !.done = @ \cup {[id |-> id, resp |-> r.resp]}]
          ELSE /\ last' = last
               /\ inflight' = [inflight EXCEPT
                                  !.running = @ \cup {[id |-> id, resp |-> r.resp,
                                                       todo |-> todo]}]
       /\ UNCHANGED <<products, wasteLogs, auditTrail, recipes, recipeIngredients, sales,
                      mlPredictions, mlModels, cache, firebase, now, queries>>

BeginTransfer ==
    /\ Answered < MaxRequests
    /\ \E req \in RaceTransfers : Begin(transfer_inventory_api(DB, req))
BeginWaste ==
    /\ Answered < MaxRequests
    /\ \E req \in RaceWastes : Begin(add_waste_api(DB, req))

\* a request in flight runs its next statement; after its last one the
\* handler returns its response
Statement ==
    \E x \in inflight.running :
        LET todo == x.todo
            rest == IF todo.save # {} THEN [todo EXCEPT !.save = {}]
                    ELSE IF todo.logs # <<>> THEN [todo EXCEPT !.logs = Tail(@)]
                    ELSE [todo EXCEPT !.audit = Tail(@)]
        IN /\ products' = IF todo.save # {}
                          THEN {p \in products : \A w \in todo.save : w.id # p.id}
                               \cup todo.save
                          ELSE products
           /\ wasteLogs' = IF todo.save = {} /\ todo.logs # <<>>
                           THEN Append(wasteLogs, Head(todo.logs)) ELSE wasteLogs
           /\ auditTrail' = IF todo.save = {} /\ todo.logs = <<>>
                            THEN Append(auditTrail, Head(todo.audit)) ELSE auditTrail
           /\ IF rest = NoStatements
              THEN /\ last' = x.resp
                   /\ inflight' = [inflight EXCEPT
                                      !.running = @ \ {x},
                                      !.done = @ \cup {[id |-> x.id, resp |-> x.resp]}]
              ELSE /\ last' = last
                   /\ inflight' = [inflight EXCEPT
                                      !.running = (@ \ {x}) \cup {[x EXCEPT !.todo = rest]}]
           /\ UNCHANGED <<recipes, recipeIngredients, sales, mlPredictions, mlModels,
                          cache, firebase, now, queries>>

InitRace ==
    /\ \E a \in Stock, b \in Stock :
          products = {Product("p1", "p1", "Latte", a, b),
                      Product("p2", "f2", "Milk", F(1), F(1))}
    /\ EmptyTables
    /\ NoFirebase
    /\ last = NoCall
    /\ inflight = [before |-> products, running |-> {}, done |-> {}]

SpecRace == InitRace /\ [][BeginTransfer \/ BeginWaste \/ Statement]_vars

(***************************************************************************)
(* Properties of the stock handlers.                                       *)
(***************************************************************************)
RECURSIVE LoggedWaste(_, _)
\* the sum of the quantities of the waste log rows of a product
LoggedWaste(logs, key) ==
    IF logs = <<>> THEN Zero
    ELSE LET rest == LoggedWaste(Tail(logs), key)
         IN IF Head(logs).product_firebase_id = key
            THEN FAdd(Head(logs).quantity, rest) ELSE rest

Succeeded(r, handler) == r.handler = handler /\ r.success

\* C2 as claimed: transfer requests alone keep every inventory_a >= 0.
\* Refuted by a transfer whose quantity is NaN: it passes both comparisons
\* and stores NaN, which is not >= 0.
C2_InventoryANonNegative == \A p \in products : FGe(p.inventory_a, Zero)

\* C3 as claimed: a successful transfer of q moves q from inventory_a to
\* inventory_b of the one product it names, so that their sum is unchanged,
\* touches no other product and reports the new values.
C3_TransferMovesStock ==
    [][Succeeded(last', "transfer_inventory_api") =>
        \E p \in products, n \in products' :
            /\ p.id = last'.req.productId \/ p.firebase_id = last'.req.productId
            /\ n.id = p.id
            /\ n.inventory_a = FSub(p.inventory_a, ParseFloat(last'.req.quantity, Zero).val)
            /\ n.inventory_b = FAdd(p.inventory_b, ParseFloat(last'.req.quantity, Zero).val)
            /\ FEq(FAdd(n.inventory_a, n.inventory_b), FAdd(p.inventory_a, p.inventory_b))
            /\ products' \ {n} = products \ {p}
            /\ last'.payload = [newInventoryA |-> n.inventory_a,
                                newInventoryB |-> n.inventory_b]]_vars

\* C4 as claimed: waste requests alone keep every inventory_b >= 0.
\* Refuted by a waste request whose quantity is NaN.
C4_InventoryBNonNegative == \A p \in products : FGe(p.inventory_b, Zero)

\* C5 as claimed: a successful waste request of q lowers inventory_b of the
\* product by q, leaves inventory_a alone and appends one waste log row of
\* quantity q for it, so that inventory_b plus the logged waste is unchanged.
C5_WasteMovesStock ==
    [][Succeeded(last', "add_waste_api") =>
        \E p \in products, n \in products' :
            /\ p.id = last'.req.productId \/ p.firebase_id = last'.req.productId
            /\ n.id = p.id
            /\ n.inventory_b = FSub(p.inventory_b, ParseFloat(last'.req.quantity, Zero).val)
            /\ n.inventory_a = p.inventory_a
            /\ products' \ {n} = products \ {p}
            /\ wasteLogs' = Append(wasteLogs,
                   [product_firebase_id |-> ProductKey(p),
                    quantity |-> ParseFloat(last'.req.quantity, Zero).val])
            /\ FEq(FAdd(n.inventory_b, LoggedWaste(wasteLogs', ProductKey(p))),
                   FAdd(p.inventory_b, LoggedWaste(wasteLogs, ProductKey(p))))]_vars

(***************************************************************************)
(* Properties of train_forecasting_model.                                  *)
(***************************************************************************)
\* the sales the claim counts for a product, their total quantity and the
\* whole days from the earliest of them to now (at least 1)
MatchingSales(p) ==
    {x \in sales : x.product_firebase_id = p.firebase_id \/ x.product_name = p.name}
RECURSIVE TotalQuantity(_)
TotalQuantity(rows) ==
    IF rows = {} THEN 0
    ELSE LET x == CHOOSE y \in rows : TRUE IN x.quantity + TotalQuantity(rows \ {x})
IsWholeDays(d, p) ==
    \E x \in MatchingSales(p) :
        /\ \A y \in MatchingSales(p) : x.order_date <= y.order_date
        /\ \/ d = 1 /\ now - x.order_date < 2 * TicksPerDay
           \/ d > 1 /\ d * TicksPerDay <= now - x.order_date
                    /\ now - x.order_date < (d + 1) * TicksPerDay
PredictionOf(p) ==
    {r \in mlPredictions :
        r.product_firebase_id = IF p.firebase_id = None THEN p.id ELSE p.firebase_id}
Predicted == {p \in products : PredictionOf(p) # {}}

\* C9: for every product train_forecasting_model has predicted, the stored
\* avg_daily_usage is the total quantity of the product's matching sales
\* over max(1, whole days since the earliest of them), and the stored
\* predicted_daily_usage is exactly 1.1 times it.
C9_TenPercentBuffer ==
    \A p \in Predicted : \A r \in PredictionOf(p) :
        /\ r.avg_daily_usage.den > 0
        /\ IsWholeDays(r.avg_daily_usage.den, p)
        /\ r.avg_daily_usage.num = TotalQuantity(MatchingSales(p))
        /\ r.predicted_daily_usage.den > 0
        /\ 10 * r.predicted_daily_usage.num * r.avg_daily_usage.den
              = 11 * r.avg_daily_usage.num * r.predicted_daily_usage.den

\* C9 witness: a training run succeeded and predicted two products, one of
\* them with a usage above zero over more than one day
C9_Witness ==
    /\ Succeeded(last, "train_forecasting_model")
    /\ Cardinality(Predicted) >= 2
    /\ \E r \in mlPredictions :
          r.avg_daily_usage.num > 0 /\ r.avg_daily_usage.den > 1

(***************************************************************************)
(* Properties of check_firebase_connectivity.                              *)
(***************************************************************************)
\* a step that is a call of check_firebase_connectivity
IsCheck == last'.handler = "check_firebase_connectivity" /\ now' = now /\ firebase' = firebase
Storable == {"Firebase is accessible", "Authentication failed", "Firebase not initialized"}

Live == cache.present /\ now < cache.expires
AnsweredFromCache ==
    /\ last'.result = [cache.status EXCEPT !.cached = TRUE]
    /\ queries'.count = queries.count
    /\ cache' = cache
StoredForAMinute ==
    /\ ~last'.result.cached
    /\ cache'.present
    /\ cache'.status = last'.result
    /\ cache'.expires = now + 60

\* C10 as stated: a call made while a status is in the cache returns that
\* status with cached=True and makes no Firestore query; a status computed
\* by a non-cached check is in the cache for the next 60 seconds; two
\* non-cached checks are at least 60 seconds apart.
C10_OneCheckPerWindow ==
    [][IsCheck =>
        /\ Live => AnsweredFromCache
        /\ (~Live /\ last'.result.message \in Storable) => StoredForAMinute
        /\ (~last'.result.cached /\ queries.checkedAt >= 0)
              => now - queries.checkedAt >= 60]_vars

\* C10: a call made while a status is in the cache returns that status with
\* cached=True and makes no Firestore query; a healthy, authentication
\* failure or not initialized status computed by a non-cached check is in
\* the cache for the next 60 seconds, so two Firestore queries are at
\* least 60 seconds apart; a check that fails outside the test query
\* returns its error status without storing it, so it is made again by
\* the next call.
C10_HealthCached ==
    [][IsCheck =>
        /\ Live => AnsweredFromCache
        /\ (~Live /\ last'.result.message \in Storable) => StoredForAMinute
        /\ (~Live /\ last'.result.message \notin Storable)
              => /\ ~last'.result.cached
                 /\ cache' = cache
                 /\ queries'.count = queries.count
        /\ (queries'.count > queries.count /\ queries.count > 0)
              => now - queries.lastAt >= 60]_vars

\* C10 witness: a second Firestore query was made, a window after the
\* first, and the call after it was answered from the cache
C10_Witness ==
    /\ last.handler = "check_firebase_connectivity"
    /\ last.result.cached
    /\ queries.count = 2
    /\ cache.present /\ now < cache.expires

(***************************************************************************)
(* Properties of the except clauses.                                       *)
(***************************************************************************)
JsonPostHandlers ==
    {"transfer_inventory_api", "add_waste_api", "add_recipe_api", "update_recipe_api",
     "delete_recipe_api", "add_product_view", "update_product_view",
     "delete_product_view", "train_forecasting_model"}

AllAnswered == inflight.running = {}
AnsweredBy(h) == {x \in inflight.done : x.resp.handler = h}
\* the product as it was before the requests
Before(p) == CHOOSE q \in inflight.before : q.id = p.id
\* what the answered requests of handler h report as moved
RECURSIVE ReportedMoved(_)
ReportedMoved(done) ==
    IF done = {} THEN 0
    ELSE LET x == CHOOSE y \in done : TRUE
         IN (IF x.resp.success THEN x.resp.req.quantity.n ELSE 0)
            + ReportedMoved(done \ {x})

\* C11: once a transfer request and a waste request on product p1 have both
\* been answered, however their statements interleaved, inventory_a +
\* inventory_b + the product's logged waste is what inventory_a +
\* inventory_b was before them.
C11_InterleavingConservesStock ==
    (/\ AllAnswered
     /\ Cardinality(AnsweredBy("transfer_inventory_api")) = 1
     /\ Cardinality(AnsweredBy("add_waste_api")) = 1)
    => \A p \in products :
          p.inventory_a.v + p.inventory_b.v + LoggedWaste(wasteLogs, ProductKey(p)).v
             = Before(p).inventory_a.v + Before(p).inventory_b.v

\* C12: once two transfer requests on product p1 have both been answered,
\* however their statements interleaved, the quantities they report as
\* transferred add up to at most the inventory_a there was before them, and
\* inventory_a is what it was before minus that sum.
C12_NoLostTransfer ==
    (/\ AllAnswered
     /\ Cardinality(AnsweredBy("transfer_inventory_api")) = 2
     /\ AnsweredBy("add_waste_api") = {})
    => \A p \in products : p.id = "p1" =>
          /\ ReportedMoved(inflight.done) <= Before(p).inventory_a.v
          /\ p.inventory_a.v = Before(p).inventory_a.v - ReportedMoved(inflight.done)

(***************************************************************************)
(* Properties of the validation of the stock handlers.                     *)
(***************************************************************************)
StockHandlers == {"transfer_inventory_api", "add_waste_api"}
\* the counter a request takes from, in the product row p
SourceCounter(handler, p) ==
    IF handler = "transfer_inventory_api" THEN p.inventory_a ELSE p.inventory_b
\* the request is one that validation rejects in the state before it
RejectedByValidation(resp) ==
    LET req == resp.req
        q == IF req.quantity = Absent THEN Zero
             ELSE IF req.quantity.t = "num" THEN F(req.quantity.n) ELSE NaN
        found == {p \in products : p.firebase_id = req.productId \/ p.id = req.productId}
    IN /\ req.body = "object"
       /\ \/ req.productId = None
          \/ IsNum(q) /\ q.v <= 0
          \/ found = {}
          \/ \E p \in found :
                /\ IsNum(q) /\ IsNum(SourceCounter(resp.handler, p))
                /\ q.v > SourceCounter(resp.handler, p).v

\* C13: a transfer or waste request with a missing product id, a quantity
\* <= 0, an unknown product or a quantity above the source counter is
\* answered success=false, and products, waste log and audit trail are
\* left as they were.
C13_RejectionChangesNothing ==
    [][(last'.handler \in StockHandlers /\ RejectedByValidation(last'))
         => /\ ~last'.success
            /\ products' = products
            /\ wasteLogs' = wasteLogs
            /\ auditTrail' = auditTrail]_vars

\* C13 witness: after a request that moved stock, a request for more than
\* the source counter holds was answered with the insufficient stock message
C13_Witness ==
    /\ last.handler \in StockHandlers
    /\ last.exc = None /\ ~last.success
    /\ last.message \in {"Insufficient stock in Inventory A",
                         "Insufficient stock in Inventory B"}
    /\ Len(auditTrail) > 0

(***************************************************************************)
(* Properties of a failed add_waste_api request.                           *)
(***************************************************************************)
\* C14: a waste request answered success=false leaves every inventory_b as
\* it was, also when the failure comes after product.save(); and no
\* request lowers an inventory_b without inserting a WasteLog row.
C14_FailedWasteKeepsStock ==
    [][last'.handler = "add_waste_api" =>
        /\ ~last'.success =>
              \A p \in products : \E n \in products' :
                  n.id = p.id /\ n.inventory_b = p.inventory_b
        /\ (\E p \in products, n \in products' :
                n.id = p.id /\ FLt(n.inventory_b, p.inventory_b))
              => Len(wasteLogs') = Len(wasteLogs) + 1]_vars

(***************************************************************************)
(* Properties of the stock counters under product and stock requests.      *)
(***************************************************************************)
\* C15: after any sequence of add_product_view, update_product_view,
\* transfer_inventory_api and add_waste_api requests from non-negative
\* stock, every product has inventory_a >= 0 and inventory_b >= 0.
C15_StockNeverNegative ==
    \A p \in products : FGe(p.inventory_a, Zero) /\ FGe(p.inventory_b, Zero)

(***************************************************************************)
(* Properties of calculate_max_servings for a missing ingredient product.  *)
(***************************************************************************)
\* C16: when a counted ingredient of the recipe names a product that does
\* not exist, the result is 0.
C16_MissingProductZero ==
    (CalledOnRecipe /\ \E i \in CountedRows : ~HasProduct(i))
    => last.result = PyInt(0)

(***************************************************************************)
(* Properties of add_recipe_api for a product that already has a recipe.   *)
(***************************************************************************)
\* the request is an add_recipe_api call naming a product that has a recipe
AddsForProductWithRecipe(resp) ==
    /\ resp.handler = "add_recipe_api"
    /\ resp.req.body = "object"
    /\ resp.req.productFirebaseId # None
    /\ \E r \in recipes : r.product_firebase_id = resp.req.productFirebaseId

\* the request passes the checks made before the lookup and the lookup
\* itself is answered by the database
ReachesTheLookup(req) ==
    req.productName # None /\ req.ingredients # <<>> /\ req.fault # 1

\* C17: add_recipe_api for a product_firebase_id that already has a recipe
\* returns success=false and creates no Recipe and no RecipeIngredient row;
\* when the request is otherwise complete the message is 'Recipe already
\* exists for this product'.
C17_ExistingRecipeRefused ==
    [][AddsForProductWithRecipe(last') =>
        /\ ~last'.success
        /\ recipes' = recipes
        /\ recipeIngredients' = recipeIngredients
        /\ ReachesTheLookup(last'.req)
              => last'.message = "Recipe already exists for this product"]_vars

C17_Witness ==
    /\ last.handler = "add_recipe_api"
    /\ last.message = "Recipe already exists for this product"
    /\ ~last.success
    /\ \E r \in recipes : r.product_firebase_id = last.req.productFirebaseId
    /\ Len(last.req.ingredients) >= 1

(***************************************************************************)
(* Properties of the ingredient rows update_recipe_api leaves.             *)
(***************************************************************************)
\* the rows linked to the recipe by recipe_id or by recipe_firebase_id
LinkedRows(rows, recipe) ==
    {i \in rows : i.recipe_id = recipe.id \/ i.recipe_firebase_id = recipe.firebase_id}

\* the row stores the submitted ingredient
Stores(row, ingredient) ==
    /\ ingredient.object
    /\ row.ingredient_firebase_id = ingredient.ingredientFirebaseId
    /\ ingredient.quantityNeeded.t = "num"
    /\ row.quantity_needed = F(ingredient.quantityNeeded.n)

\* C20: after update_recipe_api reports success for a list of n ingredients,
\* the rows linked to the recipe (by recipe_id or recipe_firebase_id) are
\* exactly the n submitted ingredients: every linked row stores a submitted
\* ingredient, each submitted ingredient is stored, there are n rows, and
\* the previous rows are gone from the table.
C20_RowsAreTheSubmitted ==
    [][(last'.handler = "update_recipe_api" /\ last'.success) =>
        \A recipe \in {r \in recipes' : last'.req.recipeId \in {r.id, r.firebase_id}} :
            LET ingredients == last'.req.ingredients
                linked == LinkedRows(recipeIngredients', recipe)
                previous == LinkedRows(recipeIngredients, recipe)
            IN /\ Cardinality(linked) = Len(ingredients)
               /\ \A k \in 1..Len(ingredients) :
                      \E row \in linked : Stores(row, ingredients[k])
               /\ \A row \in linked :
                      \E k \in 1..Len(ingredients) : Stores(row, ingredients[k])
               /\ \A row \in previous \ linked :
                      row \notin recipeIngredients']_vars

C20_Witness ==
    /\ last.handler = "update_recipe_api"
    /\ last.success
    /\ Len(last.req.ingredients) = 1
    /\ \E recipe \in recipes :
          /\ last.req.recipeId \in {recipe.id, recipe.firebase_id}
          /\ Cardinality(LinkedRows(recipeIngredients, recipe)) = 1
          /\ \A row \in LinkedRows(recipeIngredients, recipe) : row.id = <<"", 0>>

(***************************************************************************)
(* Properties of the recipe tables under sequences of recipe requests.     *)
(***************************************************************************)
\* C18: after any sequence of add_recipe_api, update_recipe_api and
\* delete_recipe_api requests from at most one recipe per product, no two
\* Recipe rows share a product_firebase_id.
C18_OneRecipePerProduct ==
    \A r \in recipes, q \in recipes :
        r.product_firebase_id = q.product_firebase_id => r = q

\* C19: after any sequence of add_recipe_api, update_recipe_api and
\* delete_recipe_api requests, every stored Recipe has at least one
\* RecipeIngredient row.
C19_RecipeHasIngredients ==
    \A r \in recipes : LinkedRows(recipeIngredients, r) # {}

(***************************************************************************)
(* Properties of the rows delete_recipe_api removes.                       *)
(***************************************************************************)
\* C21: after delete_recipe_api reports success for a recipe, that Recipe
\* row no longer exists, no RecipeIngredient row remains whose recipe_id is
\* the recipe's id or whose recipe_firebase_id is its firebase_id, and the
\* other recipes and their ingredient rows are unchanged.
C21_DeleteRemovesRecipeOnly ==
    [][(last'.handler = "delete_recipe_api" /\ last'.success) =>
        \E recipe \in recipes :
            /\ last'.req.recipeId \in {recipe.id, recipe.firebase_id}
            /\ \A r \in recipes' : r.id # recipe.id /\ r.firebase_id # recipe.firebase_id
            /\ LinkedRows(recipeIngredients', recipe) = {}
            /\ recipes' = recipes \ {recipe}
            /\ \A other \in recipes \ {recipe} :
                   LinkedRows(recipeIngredients', other)
                       = LinkedRows(recipeIngredients, other)
            /\ recipeIngredients' \subseteq recipeIngredients]_vars

C21_Witness ==
    /\ last.handler = "delete_recipe_api"
    /\ last.success
    /\ \A r \in recipes : last.req.recipeId \notin {r.id, r.firebase_id}
    /\ \E other \in recipes : LinkedRows(recipeIngredients, other) # {}

(***************************************************************************)
(* Properties of train_forecasting_model with too few sales.               *)
(***************************************************************************)
\* C22: train_forecasting_model called when fewer than 10 Sale rows exist
\* returns success=false, leaves every MLPrediction row and the MLModel row
\* unchanged and writes no audit entry.
C22_TooFewSalesChangesNothing ==
    [][(last'.handler = "train_forecasting_model" /\ Cardinality(sales) < 10) =>
        /\ ~last'.success
        /\ mlPredictions' = mlPredictions
        /\ mlModels' = mlModels
        /\ auditTrail' = auditTrail]_vars

C22_Witness ==
    /\ last.handler = "train_forecasting_model"
    /\ last.message = "Insufficient data for training"
    /\ Cardinality(sales) = 9
    /\ StalePrediction("p1") \in mlPredictions
    /\ StaleModel \in mlModels

(***************************************************************************)
(* Properties of the MLPrediction table under repeated training.           *)
(***************************************************************************)
\* the last request was a training run that reported success
Trained(resp) == resp.handler = "train_forecasting_model" /\ resp.success

\* at most one MLPrediction row per product key
OnePredictionPerKey ==
    \A r \in mlPredictions, q \in mlPredictions :
        r.product_firebase_id = q.product_firebase_id => r = q

\* a training run that follows a successful run, over the same products and
\* sales at the same time, leaves the MLPrediction table as it was
SecondRunChangesNothing ==
    [][(Trained(last) /\ last'.handler = "train_forecasting_model"
            /\ products' = products /\ sales' = sales /\ now' = now)
        => mlPredictions' = mlPredictions]_vars

====
